---- MODULE Spec2Model ----
(***************************************************************************)
(* Model of src/main.rs (tx_processing): a single-pass batch ledger.       *)
(* run() reads the rows of a CSV file one by one, gives a row without a    *)
(* client id a random id that is not a key of the ledger, dispatches the   *)
(* row on its type tag to one of five handlers that update a               *)
(* HashMap<u16, ClientInfo>, and finally writes one row per ledger entry.  *)
(*                                                                         *)
(* Option<T> is modelled as a sequence: None is <<>>, Some(v) is <<v>>.    *)
(* f32 values are modelled on the integer-valued floats: an integer n with *)
(* |n| < 2^24 is an f32, larger ones are f32 when they are a multiple of   *)
(* their binade's quantum; every sum and difference is rounded to the      *)
(* nearest such value, ties to even, as IEEE-754 binary32 does.            *)
(***************************************************************************)
EXTENDS Integers, Sequences, FiniteSets, TLC

VARIABLES
    client_map,   \* the ledger: HashMap<u16, ClientInfo>
    pc,           \* where run() is: "read", "gen", "dispatch", "write", "done", "failed"
    record,       \* the row being processed (after its handler: the row just processed)
    new_id,       \* the local new_id of generate_new_client_id, None outside it
    output,       \* the rows serialized to stdout so far
    rows,         \* number of rows read so far
    seen,         \* history variable: client ids carried by or assigned to a row so far
    funded,       \* history variable: client ids of the deposit and withdrawal rows so far
    prev_gen,     \* history variable: while a row without client id is processed, the id
                  \* and type of the row before it when that one had no client id either
    input,        \* history variable: the rows read so far, as they were in the file
                  \* (kept by the runs that log their input, empty in the others)
    err           \* the error run() returned to main: None, Some("decode"), Some("write")

vars == <<client_map, pc, record, new_id, output, rows, seen, funded, prev_gen, input, err>>

----
\* Bounds of the model.

\* The id space of a client id (u16 in the source) is 0 .. NumIds-1.
NumIds == 2
\* Transaction ids (u32 in the source) are 1 .. MaxTx.
MaxTx == 2
\* Number of input rows read in one run over the full alphabet; runs over
\* the narrow alphabet are two rows longer.
MaxRows == 2

\* Significand width of f32 (IEEE-754 binary32), the type of every amount.
MantBits == 24

----
\* Option<T>

None == <<>>

Some(v) == <<v>>

IsSome(o) == o # <<>>

Unwrap(o) == o[1]

----
\* f32 arithmetic on integer-valued floats.

RECURSIVE Pow2(_)
Pow2(n) == IF n = 0 THEN 1 ELSE 2 * Pow2(n - 1)

Abs(x) == IF x < 0 THEN -x ELSE x

\* The spacing of f32 values around magnitude a: 1 below 2^24, 2 below 2^25, ...
RECURSIVE Quantum(_, _)
Quantum(a, q) == IF a < Pow2(MantBits) * q THEN q ELSE Quantum(a, 2 * q)

\* Round the exact integer x to the nearest f32, ties to the even significand.
F32(x) ==
    LET a  == Abs(x)
        q  == Quantum(a, 1)
        lo == (a \div q) * q
        r  == a - lo
        up == IF 2 * r > q THEN TRUE
              ELSE IF 2 * r < q THEN FALSE
              ELSE ((a \div q) % 2) = 1
        m  == IF up THEN lo + q ELSE lo
    IN  IF x < 0 THEN -m ELSE m

\* f32 `+` and `-` (and the compound assignments `+=`, `-=`).
FAdd(x, y) == F32(x + y)

FSub(x, y) == F32(x - y)

----
\* The input alphabet.

ClientIds == 0 .. (NumIds - 1)

TxIds == 1 .. MaxTx

\* Amount cells that parse: a small amount, and one at 2^25, where the f32
\* spacing is 4, so that adding or subtracting the small one rounds.
AmountValues == {1, Pow2(MantBits + 1)}

Handled == {"deposit", "withdrawal", "dispute", "resolve", "chargeback"}

TxTypes == Handled \cup {"transfer"}

OptClients == {None} \cup {Some(c) : c \in ClientIds}

OptAmounts == {None} \cup {Some(a) : a \in AmountValues}

\* struct Record, as deserialized from one row: the rows an input file is
\* made of. A dispute, resolve or chargeback row carries no amount.
Records ==
    [tx_type : {"deposit", "withdrawal"}, client : OptClients, tx : TxIds, amount : OptAmounts]
    \cup
    [tx_type : {"dispute", "resolve", "chargeback"}, client : OptClients, tx : TxIds, amount : {None}]
    \cup
    [tx_type : {"transfer"}, client : OptClients, tx : {1}, amount : {None}]

\* A narrow alphabet for longer runs on one account: every handled row names
\* client 0, a deposit carries the small amount or none, a withdrawal the
\* large amount, and only an unrecognized row comes without a client id.
DeepRecords ==
    [tx_type : {"deposit"}, client : {Some(0)}, tx : TxIds, amount : {None, Some(1)}]
    \cup
    [tx_type : {"withdrawal"}, client : {Some(0)}, tx : TxIds, amount : {Some(Pow2(MantBits + 1))}]
    \cup
    [tx_type : {"dispute", "resolve", "chargeback"}, client : {Some(0)}, tx : TxIds, amount : {None}]
    \cup
    [tx_type : {"transfer"}, client : {None}, tx : {1}, amount : {None}]

\* An alphabet of rows that carry a client id and an amount where one is
\* expected, for several accounts, and two rows without client id.
ReplayRecords ==
    [tx_type : {"deposit"}, client : {Some(c) : c \in ClientIds}, tx : TxIds,
     amount : {Some(a) : a \in AmountValues}]
    \cup
    [tx_type : {"withdrawal"}, client : {Some(c) : c \in ClientIds}, tx : TxIds, amount : {Some(1)}]
    \cup
    [tx_type : {"dispute", "resolve", "chargeback"}, client : {Some(c) : c \in ClientIds},
     tx : TxIds, amount : {None}]
    \cup
    [tx_type : {"deposit", "transfer"}, client : {None}, tx : {1}, amount : {Some(1)}]

\* The rows of a file of deposits: with or without client id, with or
\* without amount.
DepositRecords ==
    [tx_type : {"deposit"}, client : OptClients, tx : {1}, amount : OptAmounts]

\* An alphabet for runs on two accounts: deposits and withdrawals of the
\* small amount and the rows that refer to them, for the first and the last
\* client id, and an unrecognized row without client id.
PairRecords ==
    [tx_type : {"deposit"}, client : {Some(0), Some(NumIds - 1)}, tx : TxIds, amount : {Some(1)}]
    \cup
    [tx_type : {"withdrawal"}, client : {Some(0), Some(NumIds - 1)}, tx : {1}, amount : {Some(1)}]
    \cup
    [tx_type : {"dispute", "resolve", "chargeback"}, client : {Some(0), Some(NumIds - 1)},
     tx : TxIds, amount : {None}]
    \cup
    [tx_type : {"transfer"}, client : {None}, tx : {1}, amount : {None}]

NoRecord == [tx_type |-> "", client |-> None, tx |-> 0, amount |-> None]

----
\* HashMap<u16, ClientInfo>

contains_key(m, k) == k \in DOMAIN m

\* An insert that starts a new map with the one entry.
insert_replacing(m, k, v) == [x \in {k} |-> v]

insert(m, k, v) == [x \in (DOMAIN m) \cup {k} |-> IF x = k THEN v ELSE m[x]]

\* A find whose predicate does not look at tx: the first record of the
\* history (the first that is not a dispute, for resolve).
find_ignores_tx(history, tx, skip_dispute) ==
    LET S == {i \in 1 .. Len(history) : skip_dispute => history[i].tx_type # "dispute"}
    IN  IF S = {} THEN None
        ELSE Some(history[CHOOSE i \in S : \A j \in S : i <= j])

\* Iterator::find over a history with the predicate "r.tx == tx" (dispute,
\* chargeback) or "r.tx == tx && r.tx_type != dispute" (resolve): the first
\* matching record as an Option.
find(history, tx, skip_dispute) ==
    LET S == {i \in 1 .. Len(history) :
                 /\ history[i].tx = tx
                 /\ (skip_dispute => history[i].tx_type # "dispute")}
    IN  IF S = {} THEN None
        ELSE Some(history[CHOOSE i \in S : \A j \in S : i <= j])

\* ClientInfo { history: Vec::new(), 0.0, 0.0, 0.0, locked: false }
new_info ==
    [history |-> <<>>, available_funds |-> 0, held_funds |-> 0,
     total_funds |-> 0, locked |-> FALSE]

----
\* The five handlers, as functions from the ledger and a record to the ledger.

\* handle_deposit without the check of the locked flag.
handle_deposit_nolock(m, r) ==
    IF ~IsSome(r.client) THEN m
    ELSE LET id == Unwrap(r.client) IN
         IF contains_key(m, id)
         THEN LET a == IF IsSome(r.amount)
                       THEN [m[id] EXCEPT
                               !.available_funds = FAdd(@, Unwrap(r.amount)),
                               !.total_funds = FAdd(@, Unwrap(r.amount))]
                       ELSE m[id]
              IN  [m EXCEPT ![id] = [a EXCEPT !.history = Append(@, r)]]
         ELSE LET a == IF IsSome(r.amount)
                       THEN [new_info EXCEPT
                               !.available_funds = FAdd(@, Unwrap(r.amount)),
                               !.total_funds = FAdd(@, Unwrap(r.amount))]
                       ELSE new_info
              IN  insert(m, id, [a EXCEPT !.history = Append(@, r)])

\* handle_deposit that credits available_funds of an existing account and
\* forgets total_funds.
handle_deposit_available_only(m, r) ==
    IF ~IsSome(r.client) THEN m
    ELSE LET id == Unwrap(r.client) IN
         IF contains_key(m, id)
         THEN IF ~m[id].locked
              THEN LET a == IF IsSome(r.amount)
                            THEN [m[id] EXCEPT
                                    !.available_funds = FAdd(@, Unwrap(r.amount))]
                            ELSE m[id]
                   IN  [m EXCEPT ![id] = [a EXCEPT !.history = Append(@, r)]]
              ELSE m
         ELSE LET a == IF IsSome(r.amount)
                       THEN [new_info EXCEPT
                               !.available_funds = FAdd(@, Unwrap(r.amount)),
                               !.total_funds = FAdd(@, Unwrap(r.amount))]
                       ELSE new_info
              IN  insert(m, id, [a EXCEPT !.history = Append(@, r)])

handle_deposit(m, r) ==
    IF ~IsSome(r.client) THEN m
    ELSE LET id == Unwrap(r.client) IN
         IF contains_key(m, id)
         THEN IF ~m[id].locked
              THEN LET a == IF IsSome(r.amount)
                            THEN [m[id] EXCEPT
                                    !.available_funds = FAdd(@, Unwrap(r.amount)),
                                    !.total_funds = FAdd(@, Unwrap(r.amount))]
                            ELSE m[id]
                   IN  [m EXCEPT ![id] = [a EXCEPT !.history = Append(@, r)]]
              ELSE m
         ELSE LET a == IF IsSome(r.amount)
                       THEN [new_info EXCEPT
                               !.available_funds = FAdd(@, Unwrap(r.amount)),
                               !.total_funds = FAdd(@, Unwrap(r.amount))]
                       ELSE new_info
              IN  insert(m, id, [a EXCEPT !.history = Append(@, r)])

\* handle_widthdrawal with the overdraft test `amount < available_funds`.
handle_widthdrawal_strict(m, r) ==
    IF ~IsSome(r.client) THEN m
    ELSE LET id == Unwrap(r.client) IN
         IF contains_key(m, id)
         THEN IF ~m[id].locked
              THEN LET a == IF IsSome(r.amount) /\ Unwrap(r.amount) < m[id].available_funds
                            THEN [m[id] EXCEPT
                                    !.available_funds = FSub(@, Unwrap(r.amount)),
                                    !.total_funds = FSub(@, Unwrap(r.amount))]
                            ELSE m[id]
                   IN  [m EXCEPT ![id] = [a EXCEPT !.history = Append(@, r)]]
              ELSE m
         ELSE insert(m, id, [new_info EXCEPT !.history = Append(@, r)])

\* handle_widthdrawal that opens no account for a client the ledger does not
\* know.
handle_widthdrawal_no_entry(m, r) ==
    IF ~IsSome(r.client) THEN m
    ELSE LET id == Unwrap(r.client) IN
         IF contains_key(m, id)
         THEN IF ~m[id].locked
              THEN LET a == IF IsSome(r.amount) /\ Unwrap(r.amount) <= m[id].available_funds
                            THEN [m[id] EXCEPT
                                    !.available_funds = FSub(@, Unwrap(r.amount)),
                                    !.total_funds = FSub(@, Unwrap(r.amount))]
                            ELSE m[id]
                   IN  [m EXCEPT ![id] = [a EXCEPT !.history = Append(@, r)]]
              ELSE m
         ELSE m

handle_widthdrawal(m, r) ==
    IF ~IsSome(r.client) THEN m
    ELSE LET id == Unwrap(r.client) IN
         IF contains_key(m, id)
         THEN IF ~m[id].locked
              THEN LET a == IF IsSome(r.amount) /\ Unwrap(r.amount) <= m[id].available_funds
                            THEN [m[id] EXCEPT
                                    !.available_funds = FSub(@, Unwrap(r.amount)),
                                    !.total_funds = FSub(@, Unwrap(r.amount))]
                            ELSE m[id]
                   IN  [m EXCEPT ![id] = [a EXCEPT !.history = Append(@, r)]]
              ELSE m
         ELSE insert(m, id, [new_info EXCEPT !.history = Append(@, r)])

\* handle_dispute that appends the record to the history also when no
\* record with its tx was found.
handle_dispute_push_always(m, r) ==
    IF ~IsSome(r.client) THEN m
    ELSE LET id == Unwrap(r.client) IN
         IF contains_key(m, id) /\ ~m[id].locked
         THEN LET tx_to_dispute == find(m[id].history, r.tx, FALSE)
                  a == IF IsSome(tx_to_dispute) /\ IsSome(Unwrap(tx_to_dispute).amount)
                       THEN [m[id] EXCEPT
                               !.available_funds = FSub(@, Unwrap(Unwrap(tx_to_dispute).amount)),
                               !.held_funds = FAdd(@, Unwrap(Unwrap(tx_to_dispute).amount))]
                       ELSE m[id]
              IN  [m EXCEPT ![id] = [a EXCEPT !.history = Append(@, r)]]
         ELSE m

handle_dispute(m, r) ==
    IF ~IsSome(r.client) THEN m
    ELSE LET id == Unwrap(r.client) IN
         IF contains_key(m, id) /\ ~m[id].locked
         THEN LET tx_to_dispute == find(m[id].history, r.tx, FALSE) IN
              IF IsSome(tx_to_dispute)
              THEN LET disputed_amount == Unwrap(tx_to_dispute).amount
                       a == IF IsSome(disputed_amount)
                            THEN [m[id] EXCEPT
                                    !.available_funds = FSub(@, Unwrap(disputed_amount)),
                                    !.held_funds = FAdd(@, Unwrap(disputed_amount))]
                            ELSE m[id]
                   IN  [m EXCEPT ![id] = [a EXCEPT !.history = Append(@, r)]]
              ELSE m
         ELSE m

\* handle_resolve that gives the amount back to available_funds and leaves
\* held_funds alone.
handle_resolve_no_release(m, r) ==
    IF ~IsSome(r.client) THEN m
    ELSE LET id == Unwrap(r.client) IN
         IF contains_key(m, id) /\ ~m[id].locked
         THEN LET tx_to_resolve == find(m[id].history, r.tx, TRUE) IN
              IF IsSome(tx_to_resolve)
              THEN LET resolved_amount == Unwrap(tx_to_resolve).amount
                       a == IF IsSome(resolved_amount)
                            THEN [m[id] EXCEPT
                                    !.available_funds = FAdd(@, Unwrap(resolved_amount))]
                            ELSE m[id]
                   IN  [m EXCEPT ![id] = [a EXCEPT !.history = Append(@, r)]]
              ELSE m
         ELSE m

\* handle_resolve that appends the record to the history also when no
\* record with its tx was found.
handle_resolve_push_always(m, r) ==
    IF ~IsSome(r.client) THEN m
    ELSE LET id == Unwrap(r.client) IN
         IF contains_key(m, id) /\ ~m[id].locked
         THEN LET tx_to_resolve == find(m[id].history, r.tx, TRUE)
                  a == IF IsSome(tx_to_resolve) /\ IsSome(Unwrap(tx_to_resolve).amount)
                       THEN [m[id] EXCEPT
                               !.available_funds = FAdd(@, Unwrap(Unwrap(tx_to_resolve).amount)),
                               !.held_funds = FSub(@, Unwrap(Unwrap(tx_to_resolve).amount))]
                       ELSE m[id]
              IN  [m EXCEPT ![id] = [a EXCEPT !.history = Append(@, r)]]
         ELSE m

handle_resolve(m, r) ==
    IF ~IsSome(r.client) THEN m
    ELSE LET id == Unwrap(r.client) IN
         IF contains_key(m, id) /\ ~m[id].locked
         THEN LET tx_to_resolve == find(m[id].history, r.tx, TRUE) IN
              IF IsSome(tx_to_resolve)
              THEN LET resolved_amount == Unwrap(tx_to_resolve).amount
                       a == IF IsSome(resolved_amount)
                            THEN [m[id] EXCEPT
                                    !.available_funds = FAdd(@, Unwrap(resolved_amount)),
                                    !.held_funds = FSub(@, Unwrap(resolved_amount))]
                            ELSE m[id]
                   IN  [m EXCEPT ![id] = [a EXCEPT !.history = Append(@, r)]]
              ELSE m
         ELSE m

\* handle_chargeback that takes the amount from total_funds only.
handle_chargeback_total_only(m, r) ==
    IF ~IsSome(r.client) THEN m
    ELSE LET id == Unwrap(r.client) IN
         IF contains_key(m, id) /\ ~m[id].locked
         THEN LET tx_to_resolve == find(m[id].history, r.tx, FALSE) IN
              IF IsSome(tx_to_resolve)
              THEN LET chargeback_amount == Unwrap(tx_to_resolve).amount
                       a == IF IsSome(chargeback_amount)
                            THEN [m[id] EXCEPT
                                    !.total_funds = FSub(@, Unwrap(chargeback_amount))]
                            ELSE m[id]
                   IN  [m EXCEPT ![id] = [a EXCEPT !.locked = TRUE]]
              ELSE m
         ELSE m

\* handle_chargeback that locks the account only when the charged-back
\* record has an amount.
handle_chargeback_lock_if_amount(m, r) ==
    IF ~IsSome(r.client) THEN m
    ELSE LET id == Unwrap(r.client) IN
         IF contains_key(m, id) /\ ~m[id].locked
         THEN LET tx_to_resolve == find(m[id].history, r.tx, FALSE) IN
              IF IsSome(tx_to_resolve)
              THEN LET chargeback_amount == Unwrap(tx_to_resolve).amount
                   IN  IF IsSome(chargeback_amount)
                       THEN [m EXCEPT ![id] = [@ EXCEPT
                               !.total_funds = FSub(@, Unwrap(chargeback_amount)),
                               !.held_funds = FSub(@, Unwrap(chargeback_amount)),
                               !.locked = TRUE]]
                       ELSE m
              ELSE m
         ELSE m

\* handle_chargeback that locks the account also when no record with its tx
\* was found.
handle_chargeback_locks_unfound(m, r) ==
    IF ~IsSome(r.client) THEN m
    ELSE LET id == Unwrap(r.client) IN
         IF contains_key(m, id) /\ ~m[id].locked
         THEN LET tx_to_resolve == find(m[id].history, r.tx, FALSE)
                  a == IF IsSome(tx_to_resolve) /\ IsSome(Unwrap(tx_to_resolve).amount)
                       THEN [m[id] EXCEPT
                               !.total_funds = FSub(@, Unwrap(Unwrap(tx_to_resolve).amount)),
                               !.held_funds = FSub(@, Unwrap(Unwrap(tx_to_resolve).amount))]
                       ELSE m[id]
              IN  [m EXCEPT ![id] = [a EXCEPT !.locked = TRUE]]
         ELSE m

handle_chargeback(m, r) ==
    IF ~IsSome(r.client) THEN m
    ELSE LET id == Unwrap(r.client) IN
         IF contains_key(m, id) /\ ~m[id].locked
         THEN LET tx_to_resolve == find(m[id].history, r.tx, FALSE) IN
              IF IsSome(tx_to_resolve)
              THEN LET chargeback_amount == Unwrap(tx_to_resolve).amount
                       a == IF IsSome(chargeback_amount)
                            THEN [m[id] EXCEPT
                                    !.total_funds = FSub(@, Unwrap(chargeback_amount)),
                                    !.held_funds = FSub(@, Unwrap(chargeback_amount))]
                            ELSE m[id]
                   IN  [m EXCEPT ![id] = [a EXCEPT !.locked = TRUE]]
              ELSE m
         ELSE m

\* A `_` arm that opens an account for a client the ledger does not know.
unrecognized_opens_account(m, r) ==
    IF IsSome(r.client) /\ ~contains_key(m, Unwrap(r.client))
    THEN insert(m, Unwrap(r.client), new_info)
    ELSE m

\* The `_` arm of the match in run(): the record is logged and dropped.
unrecognized(m, r) == m

\* The match on record.tx_type of run().
dispatch(m, r) ==
    CASE r.tx_type = "deposit"    -> handle_deposit(m, r)
      [] r.tx_type = "withdrawal" -> handle_widthdrawal(m, r)
      [] r.tx_type = "dispute"    -> handle_dispute(m, r)
      [] r.tx_type = "resolve"    -> handle_resolve(m, r)
      [] r.tx_type = "chargeback" -> handle_chargeback(m, r)
      [] OTHER                    -> unrecognized(m, r)

----
\* The run.

Init ==
    /\ client_map = <<>>
    /\ pc = "read"
    /\ record = NoRecord
    /\ new_id = None
    /\ output = <<>>
    /\ rows = 0
    /\ seen = {}
    /\ funded = {}
    /\ prev_gen = None
    /\ input = <<>>
    /\ err = None

\* A loop that calls generate_new_client_id for every row, also for one
\* that carries a client id.
ReadFrom_always_allocates(alphabet, limit, log) ==
    /\ pc = "read"
    /\ rows < limit
    /\ \E r \in alphabet :
         /\ record' = r
         /\ input' = IF log THEN Append(input, r) ELSE input
         /\ pc' = "gen"
         /\ \E d \in ClientIds : new_id' = Some(d)
         /\ seen' = seen
         /\ prev_gen' = IF IsSome(new_id)
                        THEN Some([id |-> Unwrap(new_id), tx_type |-> record.tx_type])
                        ELSE None
    /\ rows' = rows + 1
    /\ UNCHANGED <<client_map, output, funded, err>>

\* reader.deserialize() yields a row that decodes, one of `alphabet`. A row
\* without a client id enters generate_new_client_id, which makes its first
\* draw.
ReadFrom(alphabet, limit, log) ==
    /\ pc = "read"
    /\ rows < limit
    /\ \E r \in alphabet :
         /\ record' = r
         /\ input' = IF log THEN Append(input, r) ELSE input
         /\ IF IsSome(r.client)
            THEN /\ pc' = "dispatch"
                 /\ new_id' = None
                 /\ seen' = seen \cup {Unwrap(r.client)}
                 /\ prev_gen' = None
            ELSE /\ pc' = "gen"
                 /\ \E d \in ClientIds : new_id' = Some(d)
                 /\ seen' = seen
                 /\ prev_gen' = IF IsSome(new_id)
                                THEN Some([id |-> Unwrap(new_id), tx_type |-> record.tx_type])
                                ELSE None
    /\ rows' = rows + 1
    /\ UNCHANGED <<client_map, output, funded, err>>

ReadRow == ReadFrom(Records, MaxRows, FALSE)

ReadRowDeep == ReadFrom(DeepRecords, MaxRows + 2, FALSE)

ReadRowDeposits == ReadFrom(DepositRecords, MaxRows + 1, FALSE)

ReadRowPair == ReadFrom(PairRecords, MaxRows + 1, FALSE)

ReadRowReplay == ReadFrom(ReplayRecords, MaxRows, TRUE)

\* A loop whose generator gives the same value at every draw.
GenRetry_same_draw ==
    /\ pc = "gen"
    /\ contains_key(client_map, Unwrap(new_id))
    /\ new_id' = new_id
    /\ UNCHANGED <<client_map, pc, record, output, rows, seen, funded, prev_gen, input, err>>

\* The body of the while loop of generate_new_client_id: the drawn id is a
\* key of the ledger, draw again.
GenRetry ==
    /\ pc = "gen"
    /\ contains_key(client_map, Unwrap(new_id))
    /\ \E d \in ClientIds : new_id' = Some(d)
    /\ UNCHANGED <<client_map, pc, record, output, rows, seen, funded, prev_gen, input, err>>

\* generate_new_client_id returning its first draw without the loop.
GenReturn_unchecked ==
    /\ pc = "gen"
    /\ record' = [record EXCEPT !.client = new_id]
    /\ seen' = seen \cup {Unwrap(new_id)}
    /\ pc' = "dispatch"
    /\ UNCHANGED <<client_map, new_id, output, rows, funded, prev_gen, input, err>>

\* generate_new_client_id with the loop condition inverted: it draws until
\* the id IS a key of the ledger.
GenReturn_inverted ==
    /\ pc = "gen"
    /\ contains_key(client_map, Unwrap(new_id))
    /\ record' = [record EXCEPT !.client = new_id]
    /\ seen' = seen \cup {Unwrap(new_id)}
    /\ pc' = "dispatch"
    /\ UNCHANGED <<client_map, new_id, output, rows, funded, prev_gen, input, err>>

\* The loop of generate_new_client_id ends: the drawn id is returned and
\* stored into the record.
GenReturn ==
    /\ pc = "gen"
    /\ ~contains_key(client_map, Unwrap(new_id))
    /\ record' = [record EXCEPT !.client = new_id]
    /\ seen' = seen \cup {Unwrap(new_id)}
    /\ pc' = "dispatch"
    /\ UNCHANGED <<client_map, new_id, output, rows, funded, prev_gen, input, err>>

\* One arm of the match: the handler of the row's type runs to completion
\* and leaves the ledger `after`; the loop goes on to the next row.
Handle(type, after) ==
    /\ pc = "dispatch"
    /\ record.tx_type = type
    /\ client_map' = after
    /\ pc' = "read"
    /\ prev_gen' = None
    /\ UNCHANGED <<record, new_id, output, rows, seen, input, err>>

Deposit ==
    /\ Handle("deposit", handle_deposit(client_map, record))
    /\ funded' = funded \cup {Unwrap(record.client)}

Withdrawal ==
    /\ Handle("withdrawal", handle_widthdrawal(client_map, record))
    /\ funded' = funded \cup {Unwrap(record.client)}

Dispute == Handle("dispute", handle_dispute(client_map, record)) /\ UNCHANGED funded

Resolve == Handle("resolve", handle_resolve(client_map, record)) /\ UNCHANGED funded

Chargeback == Handle("chargeback", handle_chargeback(client_map, record)) /\ UNCHANGED funded

Unrecognized ==
    /\ pc = "dispatch"
    /\ record.tx_type \notin Handled
    /\ client_map' = unrecognized(client_map, record)
    /\ pc' = "read"
    /\ prev_gen' = None
    /\ UNCHANGED <<record, new_id, output, rows, seen, funded, input, err>>

\* run() returns Err and main exits with status 1: nothing more is read or
\* written. The ledger is left as it was and what was written to stdout
\* stays written.
Fail(e) ==
    /\ pc' = "failed"
    /\ err' = Some(e)
    /\ record' = NoRecord
    /\ new_id' = None
    /\ rows' = 0
    /\ seen' = {}
    /\ funded' = {}
    /\ input' = <<>>
    /\ UNCHANGED <<client_map, output, prev_gen>>

\* A row fails to decode: `result?` returns the error from run().
ReadError ==
    /\ pc = "read"
    /\ Fail("decode")

\* The reader is exhausted: the loop over the rows ends.
ReadEnd ==
    /\ pc = "read"
    /\ pc' = "write"
    /\ record' = NoRecord
    /\ new_id' = None
    /\ UNCHANGED <<client_map, output, rows, seen, funded, prev_gen, input, err>>

Written == {output[i].client : i \in 1 .. Len(output)}

\* OutputInfo { client: *k, available: v.available_funds, ... }
OutputInfo(k, v) ==
    [client    |-> k,
     available |-> v.available_funds,
     held      |-> v.held_funds,
     total     |-> v.total_funds,
     locked    |-> v.locked]

\* An output loop that runs while the rows are still being read: an entry
\* is serialized as soon as it exists.
WriteRow_while_reading ==
    /\ pc \in {"read", "write"}
    /\ \E k \in (DOMAIN client_map) \ Written :
         output' = Append(output, OutputInfo(k, client_map[k]))
    /\ UNCHANGED <<client_map, pc, record, new_id, rows, seen, funded, prev_gen, input, err>>

\* One iteration of the loop over client_map.iter(), whose order is
\* unspecified: the next entry is serialized.
WriteRow ==
    /\ pc = "write"
    /\ \E k \in (DOMAIN client_map) \ Written :
         output' = Append(output, OutputInfo(k, client_map[k]))
    /\ UNCHANGED <<client_map, pc, record, new_id, rows, seen, funded, prev_gen, input, err>>

\* wtr.serialize(..)? or wtr.flush()? fails.
WriteError ==
    /\ pc = "write"
    /\ Fail("write")

\* A loop over the ledger that may stop before the last entry.
Flush_early ==
    /\ pc = "write"
    /\ pc' = "done"
    /\ UNCHANGED <<client_map, record, new_id, output, rows, seen, funded, prev_gen, input, err>>

\* Every entry was serialized; wtr.flush() succeeds and run() returns Ok.
Flush ==
    /\ pc = "write"
    /\ (DOMAIN client_map) \ Written = {}
    /\ pc' = "done"
    /\ UNCHANGED <<client_map, record, new_id, output, rows, seen, funded, prev_gen, input, err>>

\* Everything run() does except reading a row.
Process ==
    \/ GenRetry
    \/ GenReturn
    \/ Deposit
    \/ Withdrawal
    \/ Dispute
    \/ Resolve
    \/ Chargeback
    \/ Unrecognized
    \/ ReadError
    \/ ReadEnd
    \/ WriteRow
    \/ WriteError
    \/ Flush

Next == ReadRow \/ Process

Spec == Init /\ [][Next]_vars

\* Runs of up to MaxRows + 2 rows over the narrow alphabet.
NextDeep == ReadRowDeep \/ Process

SpecDeep == Init /\ [][NextDeep]_vars

\* Runs of up to MaxRows rows over the alphabet of rows with a client id,
\* which log the rows they read.
NextReplay == ReadRowReplay \/ Process

SpecReplay == Init /\ [][NextReplay]_vars

\* Runs of up to MaxRows + 1 rows over the alphabet of two accounts.
NextPair == ReadRowPair \/ Process

SpecPair == Init /\ [][NextPair]_vars

\* Runs of up to MaxRows + 1 rows over a file of deposits: the steps of
\* run() such a file can lead to.
NextDeposits ==
    \/ ReadRowDeposits
    \/ GenRetry
    \/ GenReturn
    \/ Deposit
    \/ ReadError
    \/ ReadEnd
    \/ WriteRow
    \/ WriteError
    \/ Flush

SpecDeposits == Init /\ [][NextDeposits]_vars

\* A draw of the loop of generate_new_client_id that gives an id that is not
\* a key of the ledger.
FreeDraw == GenRetry /\ ~contains_key(client_map, Unwrap(new_id'))

\* The same runs with a fair generator and a program that keeps running:
\* while free ids exist the loop does not draw taken ids forever, and the
\* function returns once its loop has ended.
SpecDepositsFair == SpecDeposits /\ WF_vars(FreeDraw) /\ WF_vars(GenReturn)

----
\* Notions the properties below are stated in.

\* The client id of the row being processed (populated before dispatch).
Cid == Unwrap(record.client)

\* run() is about to dispatch a row of the given type.
Dispatching(type) == pc = "dispatch" /\ record.tx_type = type

\* The handler of the row just read has returned.
Handled_(type) == pc = "read" /\ record.tx_type = type

\* The ledger as the handler of the row being processed leaves it.
Post == dispatch(client_map, record)

\* Client c has a ledger entry that is not locked.
Active(m, c) == contains_key(m, c) /\ ~m[c].locked

Max(S) == CHOOSE x \in S : \A y \in S : y <= x

\* The largest magnitude among the amounts present in a history, 0 if none.
MaxAmount(h) ==
    Max({0} \cup {Abs(Unwrap(h[i].amount)) : i \in {j \in 1 .. Len(h) : IsSome(h[j].amount)}})

\* Every balance of the account is the exact result of at most
\* Len(history) + 1 additions and subtractions of recorded amounts, and all
\* of them stayed below 2^24, where every integer is an f32: no operation on
\* the account has rounded.
NeverRounded(info) == (Len(info.history) + 1) * MaxAmount(info.history) < Pow2(MantBits)

----
\* C1: once a client's account is locked, no step of the run (a record of
\* any type for that client, or anything else) changes its available_funds,
\* held_funds, total_funds or history, and locked stays true.
C1_LockedFrozen ==
    [][\A c \in DOMAIN client_map :
          client_map[c].locked =>
              /\ c \in DOMAIN client_map'
              /\ client_map'[c] = client_map[c]]_vars

\* A deposit with an amount has been processed for a locked account.
C1_Witness ==
    /\ Handled_("deposit")
    /\ IsSome(record.amount)
    /\ contains_key(client_map, Cid)
    /\ client_map[Cid].locked

FreshAfterPrev == IsSome(prev_gen) => Unwrap(prev_gen).id # Unwrap(new_id)

\* C3 as stated: two consecutive rows without client id get two distinct
\* generated ids, whatever their types, and a generated id is not a key of
\* the ledger when it is generated.
C3_ConsecutiveDistinct ==
    (pc = "dispatch" /\ IsSome(new_id)) =>
        /\ ~contains_key(client_map, Unwrap(new_id))
        /\ FreshAfterPrev

\* C3 as amended: a generated id is not a key of the ledger when it is
\* generated, and two consecutive rows without client id get two distinct
\* ids when the first of them is a deposit or a withdrawal.
C3_DistinctAfterFunding ==
    (pc = "dispatch" /\ IsSome(new_id)) =>
        /\ ~contains_key(client_map, Unwrap(new_id))
        /\ (IsSome(prev_gen) /\ Unwrap(prev_gen).tx_type \in {"deposit", "withdrawal"}
              => Unwrap(prev_gen).id # Unwrap(new_id))

\* The second of two consecutive rows without client id has its id, the
\* first was a deposit, and the ledger is not empty.
C3_Witness ==
    /\ pc = "dispatch"
    /\ IsSome(new_id)
    /\ IsSome(prev_gen)
    /\ Unwrap(prev_gen).tx_type = "deposit"
    /\ contains_key(client_map, Unwrap(prev_gen).id)

\* x + y and x - y, exact or as f32 computes them.
Sum(exact, x, y) == IF exact THEN x + y ELSE FAdd(x, y)

Diff(exact, x, y) == IF exact THEN x - y ELSE FSub(x, y)

\* What C4 says of a withdrawal for an existing unlocked client, the
\* difference being exact or as f32 computes it.
WithdrawalEffect(exact) ==
    (Dispatching("withdrawal") /\ Active(client_map, Cid)) =>
        LET old == client_map[Cid]
            new == Post[Cid]
            a   == record.amount
        IN  /\ (IsSome(a) /\ Unwrap(a) <= old.available_funds) =>
                   /\ new.available_funds = Diff(exact, old.available_funds, Unwrap(a))
                   /\ new.total_funds = Diff(exact, old.total_funds, Unwrap(a))
            /\ (~IsSome(a) \/ Unwrap(a) > old.available_funds) =>
                   /\ new.available_funds = old.available_funds
                   /\ new.total_funds = old.total_funds
            /\ new.held_funds = old.held_funds
            /\ new.locked = old.locked
            /\ new.history = Append(old.history, record)
            /\ (old.available_funds >= 0 => new.available_funds >= 0)

\* C4 as stated: the withdrawal reduces available_funds and total_funds by
\* exactly a when a <= available_funds, changes no balance when
\* a > available_funds or the amount is absent, leaves held_funds and locked
\* alone, appends the record, and never takes a non-negative available_funds
\* below zero.
C4_WithdrawalExact == WithdrawalEffect(TRUE)

\* C4 as amended: as stated, except that available_funds and total_funds
\* become the f32 nearest to their value less a (less exactly a whenever
\* that difference is an f32).
C4_WithdrawalRounded == WithdrawalEffect(FALSE)

\* A withdrawal of all the available funds (a = available_funds) has been
\* processed: deposit 1, withdrawal 1.
C4_Witness ==
    /\ Handled_("withdrawal")
    /\ record.amount = Some(1)
    /\ Active(client_map, Cid)
    /\ Len(client_map[Cid].history) = 2
    /\ client_map[Cid].history[1].tx_type = "deposit"
    /\ client_map[Cid].history[1].amount = Some(1)
    /\ client_map[Cid].history[2] = record
    /\ client_map[Cid].available_funds = 0
    /\ client_map[Cid].total_funds = 0

\* The first record of a history with the given tx, as find() returns it.
First(h, tx) == find(h, tx, FALSE)

\* What C5 says of a dispute on record.tx and of the resolve that follows it,
\* for an existing unlocked client and a history record `rec` with that tx
\* and a present amount. `exact`: the balances move by exactly the amount.
RoundTrip(exact, rec) ==
    LET old  == client_map[Cid]
        a    == Unwrap(rec.amount)
        D    == handle_dispute(client_map, record)
        R    == handle_resolve(D, [record EXCEPT !.tx_type = "resolve"])
        kept == exact \/ (/\ D[Cid].available_funds = old.available_funds - a
                          /\ D[Cid].held_funds = old.held_funds + a)
    IN  /\ D[Cid].available_funds = Diff(exact, old.available_funds, a)
        /\ D[Cid].held_funds = Sum(exact, old.held_funds, a)
        /\ D[Cid].total_funds = old.total_funds
        /\ kept => /\ R[Cid].available_funds = old.available_funds
                   /\ R[Cid].held_funds = old.held_funds

\* C5 as stated: for an existing unlocked client whose history holds a record
\* with tx t and a present amount a, a dispute on t moves a from
\* available_funds to held_funds with total_funds unchanged, and a following
\* resolve on t restores available_funds and held_funds.
C5_DisputeResolveRoundTrip ==
    (Dispatching("dispute") /\ Active(client_map, Cid)) =>
        \A i \in 1 .. Len(client_map[Cid].history) :
            LET rec == client_map[Cid].history[i]
            IN  (rec.tx = record.tx /\ IsSome(rec.amount)) => RoundTrip(TRUE, rec)

\* C5 as amended: when the FIRST record with tx t in the client's history has
\* a present amount a, the dispute sets available_funds to the f32 nearest
\* available_funds - a and held_funds to the f32 nearest held_funds + a, with
\* total_funds unchanged; when neither of the two results was rounded, the
\* following resolve restores available_funds and held_funds.
C5_RoundTripOnFirstMatch ==
    (Dispatching("dispute") /\ Active(client_map, Cid)) =>
        LET first == First(client_map[Cid].history, record.tx)
        IN  (IsSome(first) /\ IsSome(Unwrap(first).amount)) =>
                RoundTrip(FALSE, Unwrap(first))

\* A deposit of 1 was disputed and the dispute resolved: the history ends
\* with the dispute and the resolve, 1 is available again and nothing held.
C5_Witness ==
    /\ Handled_("resolve")
    /\ Active(client_map, Cid)
    /\ LET h == client_map[Cid].history
           n == Len(h)
       IN  /\ n >= 3
           /\ h[n] = record
           /\ h[n - 1] = [record EXCEPT !.tx_type = "dispute"]
           /\ First(h, record.tx) = Some(h[1])
           /\ h[1].tx_type = "deposit"
           /\ h[1].amount = Some(1)
    /\ client_map[Cid].available_funds = 1
    /\ client_map[Cid].held_funds = 0
    /\ client_map[Cid].total_funds = 1

\* What C6 says of a chargeback for an existing unlocked client whose history
\* has a record with the chargeback's tx, the differences being exact or as
\* f32 computes them.
ChargebackEffect(exact) ==
    (Dispatching("chargeback") /\ Active(client_map, Cid)) =>
        LET old   == client_map[Cid]
            new   == Post[Cid]
            first == First(old.history, record.tx)
        IN  IsSome(first) =>
                /\ new.locked
                /\ IF IsSome(Unwrap(first).amount)
                   THEN /\ new.total_funds = Diff(exact, old.total_funds, Unwrap(Unwrap(first).amount))
                        /\ new.held_funds = Diff(exact, old.held_funds, Unwrap(Unwrap(first).amount))
                   ELSE /\ new.total_funds = old.total_funds
                        /\ new.held_funds = old.held_funds
                /\ new.available_funds = old.available_funds
                /\ new.history = old.history

\* C6 as stated: the chargeback always sets locked; total_funds and
\* held_funds each decrease by a when the first matching record has a present
\* amount a, and no balance changes otherwise; available_funds and history
\* are unchanged.
C6_ChargebackExact == ChargebackEffect(TRUE)

\* C6 as amended: as stated, except that total_funds and held_funds become
\* the f32 nearest to their value less a (less exactly a whenever that
\* difference is an f32).
C6_ChargebackRounded == ChargebackEffect(FALSE)

\* A disputed deposit of 1 was charged back: the account is locked, nothing
\* is held, the total is 0, and the chargeback is not in the history.
C6_Witness ==
    /\ Handled_("chargeback")
    /\ contains_key(client_map, Cid)
    /\ client_map[Cid].locked
    /\ Len(client_map[Cid].history) = 2
    /\ client_map[Cid].history[1].tx_type = "deposit"
    /\ client_map[Cid].history[1].tx = record.tx
    /\ client_map[Cid].history[1].amount = Some(1)
    /\ client_map[Cid].history[2].tx_type = "dispute"
    /\ client_map[Cid].available_funds = 0
    /\ client_map[Cid].held_funds = 0
    /\ client_map[Cid].total_funds = 0

\* C7: a dispute, resolve or chargeback whose tx does not occur in the
\* history of the record's own client (the client has no entry, or an entry
\* whose history has no record with that tx) leaves the whole ledger, and so
\* every field of that client, unchanged.
C7_UnknownTxNoEffect ==
    (/\ pc = "dispatch"
     /\ record.tx_type \in {"dispute", "resolve", "chargeback"}
     /\ contains_key(client_map, Cid) => ~IsSome(First(client_map[Cid].history, record.tx)))
        => Post = client_map

\* A dispute was processed for an existing unlocked client whose history has
\* records, none of them with the dispute's tx.
C7_Witness ==
    /\ Handled_("dispute")
    /\ Active(client_map, Cid)
    /\ client_map[Cid].history # <<>>
    /\ ~IsSome(First(client_map[Cid].history, record.tx))

\* C8: from the moment a row whose type is none of deposit, withdrawal,
\* dispute, resolve, chargeback is read until it is dropped, no step changes
\* the ledger: no entry is created (also while and after the allocator
\* assigns the row an id) and no entry changes.
C8_UnrecognizedNoEffect ==
    [][(pc \in {"gen", "dispatch"} /\ record.tx_type \notin Handled)
          => client_map' = client_map]_vars

\* An unrecognized row was given an id by the allocator and dropped; the id
\* has no entry in the ledger, which holds another client's account.
C8_Witness ==
    /\ pc = "read"
    /\ record.tx_type \notin Handled
    /\ record # NoRecord
    /\ IsSome(new_id)
    /\ record.client = new_id
    /\ ~contains_key(client_map, Cid)
    /\ client_map # <<>>

\* No client id appears in two rows of the output.
NoDuplicateRows ==
    \A i, j \in 1 .. Len(output) : output[i].client = output[j].client => i = j

\* C9 as stated: when the run completes, the output has exactly one row per
\* client id carried by, or assigned to, some input record.
C9_RowPerClientSeen ==
    pc = "done" => (Written = seen /\ NoDuplicateRows)

\* C9 as amended: when the run completes, the output has exactly one row per
\* client id carried by, or assigned to, some deposit or withdrawal record.
C9_RowPerClientFunded ==
    pc = "done" => (Written = funded /\ NoDuplicateRows)

\* A run completed with two rows written, for two clients.
C9_Witness ==
    /\ pc = "done"
    /\ Len(output) = 2
    /\ Cardinality(Written) = 2

\* The ledger that the rows of s, dispatched in order as they are, produce.
RECURSIVE Replay(_)
Replay(s) ==
    IF s = <<>> THEN <<>>
    ELSE dispatch(Replay(SubSeq(s, 1, Len(s) - 1)), s[Len(s)])

\* Every row of s carries a client id.
AllPresent(s) == \A i \in 1 .. Len(s) : IsSome(s[i].client)

\* The set of rows that writing out the ledger m produces.
RowsOf(m) == {OutputInfo(k, m[k]) : k \in DOMAIN m}

\* C10: the ledger a completed run ends with, and the set of rows it writes,
\* are determined by the input sequence alone when every row carries a
\* client id (so two runs over the same input end with the same ledger and
\* the same rows up to order): they are what dispatching the rows in order
\* produces, whatever the allocator drew and in whatever order the ledger
\* was iterated.
C10_LedgerDeterminedByInput ==
    (pc = "done" /\ AllPresent(input)) =>
        LET ledger == Replay(input)
        IN  /\ client_map = ledger
            /\ {output[i] : i \in 1 .. Len(output)} = RowsOf(ledger)
            /\ Len(output) = Cardinality(DOMAIN ledger)

\* A run over two rows that carry client ids completed with two accounts in
\* the ledger and two rows written.
C10_Witness ==
    /\ pc = "done"
    /\ Len(input) = 2
    /\ AllPresent(input)
    /\ Cardinality(DOMAIN client_map) = 2
    /\ Len(output) = 2

\* C11: nothing is written while rows are being read, and a run that a row
\* failing to decode has ended is in the fatal-error state with zero output
\* rows, however many rows were applied to the ledger before.
C11_DecodeFailureWritesNothing ==
    /\ pc \in {"read", "gen", "dispatch"} => output = <<>>
    /\ err = Some("decode") => (pc = "failed" /\ output = <<>>)

\* A row failed to decode after two accounts had been opened: the run has
\* failed, the ledger holds the accounts and no row was written.
C11_Witness ==
    /\ err = Some("decode")
    /\ pc = "failed"
    /\ Cardinality(DOMAIN client_map) = 2
    /\ output = <<>>

\* The entry of client c in ledger m, a zeroed one when there is none.
EntryOrNew(m, c) == IF contains_key(m, c) THEN m[c] ELSE new_info

\* The amounts present in a history added up in order from zero, every
\* partial sum exact or as f32 computes it.
RECURSIVE SumOfAmounts(_, _)
SumOfAmounts(exact, h) ==
    IF h = <<>> THEN 0
    ELSE LET rest == SumOfAmounts(exact, SubSeq(h, 1, Len(h) - 1))
             last == h[Len(h)]
         IN  IF IsSome(last.amount) THEN Sum(exact, rest, Unwrap(last.amount)) ELSE rest

\* What C12 says of a deposit for a client that is unlocked or has no entry
\* yet, and of the accounts of a run of deposits, the sums being exact or as
\* f32 computes them.
DepositEffect(exact) ==
    /\ (Dispatching("deposit") /\ (~contains_key(client_map, Cid) \/ Active(client_map, Cid))) =>
           LET old == EntryOrNew(client_map, Cid)
               new == Post[Cid]
               a   == record.amount
           IN  /\ IsSome(a) =>
                      /\ new.available_funds = Sum(exact, old.available_funds, Unwrap(a))
                      /\ new.total_funds = Sum(exact, old.total_funds, Unwrap(a))
               /\ ~IsSome(a) =>
                      /\ new.available_funds = old.available_funds
                      /\ new.total_funds = old.total_funds
               /\ new.held_funds = old.held_funds
               /\ new.locked = old.locked
               /\ new.history = Append(old.history, record)
    /\ \A c \in DOMAIN client_map :
           /\ client_map[c].available_funds = SumOfAmounts(exact, client_map[c].history)
           /\ client_map[c].total_funds = SumOfAmounts(exact, client_map[c].history)
           /\ client_map[c].held_funds = 0
           /\ ~client_map[c].locked

\* C12 as stated: a deposit with amount a on an unlocked or new client
\* increases available_funds and total_funds by exactly a and leaves
\* held_funds and locked alone; after deposits only, available = total = the
\* sum of the present amounts, held = 0, locked = false, a deposit without
\* amount adding nothing but its record to the history.
C12_DepositExact == DepositEffect(TRUE)

\* C12 as amended: as stated, except that available_funds and total_funds
\* become the f32 nearest to their value plus a, so that after deposits only
\* they are the present amounts added in input order with every partial sum
\* rounded to f32 (the exact sum whenever no partial sum is rounded).
C12_DepositRounded == DepositEffect(FALSE)

\* Three deposits were processed for one client, 1, none and 1: the history
\* has the three records and 2 is available.
C12_Witness ==
    /\ Handled_("deposit")
    /\ contains_key(client_map, Cid)
    /\ Len(client_map[Cid].history) = 3
    /\ ~IsSome(client_map[Cid].history[2].amount)
    /\ client_map[Cid].available_funds = 2
    /\ client_map[Cid].total_funds = 2

\* C14: with a fair generator the allocator returns whenever some id of the
\* id space is not a ledger key; when every id is a ledger key it never
\* returns, and the run stays in the allocator with its ledger as it is,
\* never reaching the output stage.
C14_AllocatorReturnsIffFreeId ==
    /\ (pc = "gen" /\ DOMAIN client_map # ClientIds) ~> (pc = "dispatch")
    /\ [][(pc = "gen" /\ DOMAIN client_map = ClientIds)
             => (pc' = "gen" /\ client_map' = client_map)]_vars

\* The allocator has returned the one id that was not a ledger key.
C14_Witness ==
    /\ pc = "dispatch"
    /\ IsSome(new_id)
    /\ record.client = new_id
    /\ ~contains_key(client_map, Cid)
    /\ DOMAIN client_map = ClientIds \ {Cid}

\* The types of the rows that refer to an earlier transaction.
Referring == {"dispute", "resolve", "chargeback"}

\* Row i of s refers to a transaction that no earlier row of s recorded for
\* its client: no deposit or withdrawal with its tx and its client precedes it.
Premature(s, i) ==
    /\ s[i].tx_type \in Referring
    /\ ~\E j \in 1 .. (i - 1) :
           /\ s[j].tx_type \in {"deposit", "withdrawal"}
           /\ s[j].client = s[i].client
           /\ s[j].tx = s[i].tx

\* s without its premature rows.
RECURSIVE Timely(_)
Timely(s) ==
    IF s = <<>> THEN <<>>
    ELSE LET front == Timely(SubSeq(s, 1, Len(s) - 1))
         IN  IF Premature(s, Len(s)) THEN front ELSE Append(front, s[Len(s)])

\* C13: a dispute, resolve or chargeback changes the ledger only if the
\* history of its client already holds a record with its tx, put there by an
\* earlier row for that client; and a row that arrives before the deposit
\* or withdrawal it refers to has no effect then or later: whenever the rows
\* read so far are all processed, the ledger is what the input without its
\* premature rows produces.
C13_InputOrder ==
    /\ (pc = "dispatch" /\ record.tx_type \in Referring /\ Post # client_map) =>
           /\ contains_key(client_map, Cid)
           /\ \E i \in 1 .. Len(client_map[Cid].history) :
                  /\ client_map[Cid].history[i].tx = record.tx
                  /\ client_map[Cid].history[i].client = record.client
    /\ (pc = "read" /\ AllPresent(input)) =>
           client_map = Replay(Timely(input))

\* A dispute arrived before the deposit it refers to: after both rows the
\* account has the deposit available, nothing held, and only the deposit in
\* its history.
C13_Witness ==
    /\ pc = "read"
    /\ Len(input) = 2
    /\ input[1].tx_type = "dispute"
    /\ input[2].tx_type = "deposit"
    /\ input[1].client = input[2].client
    /\ input[1].tx = input[2].tx
    /\ IsSome(input[2].client)
    /\ client_map[Unwrap(input[2].client)].history = <<input[2]>>
    /\ client_map[Unwrap(input[2].client)].held_funds = 0
    /\ client_map[Unwrap(input[2].client)].available_funds = Unwrap(input[2].amount)

\* C15: for a client id that is not a ledger key, a deposit creates an
\* unlocked entry with available = total = amount (zero if absent) and held
\* = 0, a withdrawal an unlocked entry with all balances zero even when its
\* amount is present, both with the record as the whole history and every
\* other entry as it was; a dispute, resolve or chargeback leaves the ledger,
\* and so its set of keys, unchanged.
C15_NewClient ==
    (pc = "dispatch" /\ record.tx_type \in Handled /\ ~contains_key(client_map, Cid)) =>
        LET amt == IF IsSome(record.amount) THEN Unwrap(record.amount) ELSE 0
        IN  /\ record.tx_type = "deposit" =>
                   Post = insert(client_map, Cid,
                                 [history |-> <<record>>, available_funds |-> amt,
                                  held_funds |-> 0, total_funds |-> amt, locked |-> FALSE])
            /\ record.tx_type = "withdrawal" =>
                   Post = insert(client_map, Cid,
                                 [history |-> <<record>>, available_funds |-> 0,
                                  held_funds |-> 0, total_funds |-> 0, locked |-> FALSE])
            /\ record.tx_type \in Referring => Post = client_map

\* A withdrawal with an amount was processed for a client that had no entry:
\* the entry exists, zeroed and unlocked, with the withdrawal in its history.
C15_Witness ==
    /\ Handled_("withdrawal")
    /\ IsSome(record.amount)
    /\ contains_key(client_map, Cid)
    /\ client_map[Cid] = [new_info EXCEPT !.history = <<record>>]

\* The chargeback being dispatched finds a record with its tx in the history
\* of client c, whose account is unlocked.
ChargebackFinds(c) ==
    /\ Dispatching("chargeback")
    /\ c = Cid
    /\ Active(client_map, c)
    /\ IsSome(First(client_map[c].history, record.tx))

\* C16: at every step and for every client, the account is locked after the
\* step exactly when it was locked before it or the step is a chargeback for
\* that client that finds a record with its tx in the client's history while
\* the account is unlocked; so locked is true exactly when such a chargeback
\* has occurred, and no other record changes it.
C16_LockedIffChargedBack ==
    [][\A c \in DOMAIN client_map' :
          client_map'[c].locked <=>
              \/ (c \in DOMAIN client_map /\ client_map[c].locked)
              \/ ChargebackFinds(c)]_vars

\* A chargeback of a deposit without amount was processed: the account is
\* locked and its balances are zero.
C16_Witness ==
    /\ Handled_("chargeback")
    /\ contains_key(client_map, Cid)
    /\ client_map[Cid].locked
    /\ Len(client_map[Cid].history) = 1
    /\ client_map[Cid].history[1].tx = record.tx
    /\ ~IsSome(client_map[Cid].history[1].amount)
    /\ client_map[Cid].total_funds = 0

\* C17: for every client and every tx, the earliest record with that tx in
\* the client's history, if any, is a deposit or a withdrawal; so the search
\* of dispute and chargeback and the search of resolve, which skips dispute
\* records, select the same record, and a dispute, resolve or chargeback
\* that changes the ledger has matched a deposit or a withdrawal.
C17_FirstIsDepositOrWithdrawal ==
    /\ \A c \in DOMAIN client_map :
           \A t \in TxIds :
               LET first == First(client_map[c].history, t)
               IN  IsSome(first) =>
                       /\ Unwrap(first).tx_type \in {"deposit", "withdrawal"}
                       /\ find(client_map[c].history, t, TRUE) = first
    /\ (pc = "dispatch" /\ record.tx_type \in Referring /\ Post # client_map) =>
           LET first == First(EntryOrNew(client_map, Cid).history, record.tx)
           IN  /\ IsSome(first)
               /\ Unwrap(first).tx_type \in {"deposit", "withdrawal"}

\* A deposit was disputed, the dispute resolved, and the deposit charged
\* back: the history holds the deposit first, then records of the same tx
\* of type dispute and resolve.
C17_Witness ==
    /\ Handled_("chargeback")
    /\ contains_key(client_map, Cid)
    /\ client_map[Cid].locked
    /\ LET h == client_map[Cid].history
       IN  /\ Len(h) = 3
           /\ h[1].tx_type = "deposit"
           /\ h[2].tx_type = "dispute"
           /\ h[3].tx_type = "resolve"
           /\ \A i \in 1 .. 3 : h[i].tx = record.tx

\* C18: a dispute, resolve or chargeback row without client id gets an id
\* that is not a ledger key, and its handler leaves the ledger unchanged,
\* whatever the ledger contains.
C18_AbsentClientNoEffect ==
    (pc = "dispatch" /\ IsSome(new_id) /\ record.tx_type \in Referring) =>
        /\ ~contains_key(client_map, Cid)
        /\ Post = client_map

\* A dispute without client id was given an id and processed, while the
\* ledger holds an account with a record of the dispute's tx.
C18_Witness ==
    /\ Handled_("dispute")
    /\ IsSome(new_id)
    /\ record.client = new_id
    /\ ~contains_key(client_map, Cid)
    /\ \E c \in DOMAIN client_map : IsSome(First(client_map[c].history, record.tx))

\* C19 as stated: every amount of the input being non-negative (as all of
\* the alphabet are), held_funds of every client is non-negative in every
\* reachable state.
C19_HeldNonNegative ==
    \A c \in DOMAIN client_map : client_map[c].held_funds >= 0

\* The tx of the row being dispatched is in no record of its own client's
\* history and in a record of another client's history.
OnlyElsewhere ==
    /\ ~IsSome(First(EntryOrNew(client_map, Cid).history, record.tx))
    /\ \E c \in (DOMAIN client_map) \ {Cid} : IsSome(First(client_map[c].history, record.tx))

\* C20: no step removes a ledger key; a step changes or creates at most the
\* entry keyed by the client id of the row being dispatched; and a dispute,
\* resolve or chargeback whose tx is only in another client's history
\* changes nothing.
C20_OwnEntryOnly ==
    [][/\ DOMAIN client_map \subseteq DOMAIN client_map'
       /\ \A c \in DOMAIN client_map' :
              \/ (c \in DOMAIN client_map /\ client_map'[c] = client_map[c])
              \/ (pc = "dispatch" /\ c = Cid)
       /\ (pc = "dispatch" /\ record.tx_type \in Referring /\ OnlyElsewhere)
              => client_map' = client_map]_vars

\* A dispute was processed for a client with an account and a history, on a
\* tx that only the other client's history holds; both accounts are
\* unlocked with nothing held.
C20_Witness ==
    /\ Handled_("dispute")
    /\ Active(client_map, Cid)
    /\ client_map[Cid].history # <<>>
    /\ ~IsSome(First(client_map[Cid].history, record.tx))
    /\ client_map[Cid].held_funds = 0
    /\ \E c \in (DOMAIN client_map) \ {Cid} :
           /\ IsSome(First(client_map[c].history, record.tx))
           /\ ~client_map[c].locked
           /\ client_map[c].held_funds = 0

====
